---------------------------- MODULE Spec2Model ----------------------------
(***************************************************************************)
(* A model of 50states-tracker/collect_marathon_data.py.                   *)
(*                                                                         *)
(* Text is a sequence of tokens, each a string: a digit ("0".."9"), a      *)
(* space " ", a punctuation mark, or a whole word.  Digits are kept one    *)
(* per token so that the regular expressions' \d+ runs, the comma groups   *)
(* and the conversions to numbers are computed, not assumed.               *)
(***************************************************************************)
EXTENDS Integers, Sequences, FiniteSets, TLC

VARIABLES
    entry,       \* the function this run enters at
    pc,          \* position of the one task (the script is one asyncio task)
    max_races,   \* collect_state_data's max_races argument
    stateIdx,    \* main: how many entries of US_STATES the for loop has taken
    inflight,    \* the page.goto navigations started and not yet returned or raised
    document,    \* the rendered listing page (sequence of rows)
    races,       \* parse_races_from_html's return value
    top_races,   \* collect_state_data: races[:max_races]
    race_data,   \* collect_state_data: the records built so far
    detail,      \* the rendered detail page
    elevation,   \* extract_elevation_data's return value <<gain, loss>>
    errors,      \* indices of top_races whose extract_elevation_data printed "Error getting elevation"
    ret,         \* collect_state_data's return value
    all_races,   \* main: the accumulated records
    history,     \* what each collect_state_data call of main did: its state, listing outcome, return value
    csv          \* the rows written to the output file

vars ==
    <<entry, pc, max_races, stateIdx, inflight, document, races, top_races,
      race_data, detail, elevation, errors, ret, all_races, history, csv>>

----------------------------------------------------------------------------
(* Text helpers: what String.trim, split(','), replace(',', ''), parseInt   *)
(* and toLowerCase do on token sequences, and the pieces the regular       *)
(* expressions are made of.                                                *)

\* the one element of a singleton set; Only({F(v) : v \in {e}}) is F(e) with e
\* evaluated once
Only(S) == CHOOSE x \in S : TRUE

Min(S) == CHOOSE x \in S : \A y \in S : x <= y

Max(S) == CHOOSE x \in S : \A y \in S : x >= y

Digits == {"0", "1", "2", "3", "4", "5", "6", "7", "8", "9"}

\* \d
IsDigit(t) == t \in Digits

\* \s of the regular expressions, and what trim() strips
IsSpace(t) == t \in {" ", "\n"}

DigitVal(t) ==
    CASE t = "0" -> 0 [] t = "1" -> 1 [] t = "2" -> 2 [] t = "3" -> 3
      [] t = "4" -> 4 [] t = "5" -> 5 [] t = "6" -> 6 [] t = "7" -> 7
      [] t = "8" -> 8 [] t = "9" -> 9

\* String.trim: from the first to the last token that is not whitespace
Trim(s) ==
    LET kept == {i \in 1..Len(s) : ~IsSpace(s[i])}
    IN  IF kept = {} THEN <<>> ELSE SubSeq(s, Min(kept), Max(kept))

NotComma(t) == t # ","

\* s.replace(',', '') / s.replace(/,/g, '')
StripCommas(s) == SelectSeq(s, NotComma)

\* the number the first n digits of s denote
RECURSIVE ParseDigits(_, _)
ParseDigits(s, n) ==
    IF n = 0 THEN 0 ELSE 10 * ParseDigits(s, n - 1) + DigitVal(s[n])

\* parseInt of a string of digits
ParseInt(s) == ParseDigits(s, Len(s))

\* text.split(',')[0]
BeforeComma(s) ==
    LET commas == {i \in 1..Len(s) : s[i] = ","}
    IN  IF commas = {} THEN s ELSE SubSeq(s, 1, Min(commas) - 1)

\* String.toLowerCase / re.IGNORECASE on one token
ToLower(t) ==
    CASE t \in {"Not", "NOT"} -> "not"
      [] t \in {"Certified", "CERTIFIED"} -> "certified"
      [] t \in {"Finisher", "FINISHER"} -> "finisher"
      [] t \in {"Finishers", "FINISHERS"} -> "finishers"
      [] t \in {"Elevation", "ELEVATION"} -> "elevation"
      [] t \in {"Gain", "GAIN"} -> "gain"
      [] t \in {"Loss", "LOSS"} -> "loss"
      [] t \in {"Feet", "FEET"} -> "feet"
      [] t \in {"Ft", "FT"} -> "ft"
      [] OTHER -> t

\* s[a..b] matches \d* / \s* / [:\s]* (an empty range matches)
AllDigits(s, a, b) == \A k \in a..b : IsDigit(s[k])

AllSpaces(s, a, b) == \A k \in a..b : IsSpace(s[k])

AllColonSpace(s, a, b) == \A k \in a..b : s[k] = ":" \/ IsSpace(s[k])

\* every way (\d+(?:,\d+)?) matches from position i: <<e1, e2>>, the ends of
\* the first digit run and of the whole group (e2 = e1: the group ,\d+ is left out)
NumberGroups(s, i) ==
    {c \in (i..Len(s)) \X (i..Len(s)) :
        /\ AllDigits(s, i, c[1])
        /\ \/ c[2] = c[1]
           \/ /\ c[2] >= c[1] + 2
              /\ s[c[1] + 1] = ","
              /\ AllDigits(s, c[1] + 2, c[2])}

\* the match a backtracking engine finds first: \d+ as long as it can be, then
\* the optional group taken and as long as it can be
Greedy(C) ==
    CHOOSE c \in C :
        \A d \in C : c[1] > d[1] \/ (c[1] = d[1] /\ c[2] >= d[2])

NoMatch == <<"no match">>

----------------------------------------------------------------------------
(* parse_races_from_html: the JavaScript evaluated in the listing page.     *)
(*                                                                         *)
(* A row (tr) is a record:                                                  *)
(*   ncells          row.cells.length                                      *)
(*   h1, h3, h4      cells[0].querySelector('h1' / 'h3' / 'h4')             *)
(*   courseH4        cells[1].querySelector('h4')                          *)
(*   cell1, cell3, cell4   innerText of cells[1], cells[3], cells[4]       *)
(* An element is a record: present (querySelector found it), text (its     *)
(* innerText), hasLink/linkText (its a[href*="race-detail"]), hasDate,     *)
(* dateAttr, dateText (its span[itemprop="startDate"], the span's content  *)
(* attribute and innerText).                                               *)

NoElem ==
    [present |-> FALSE, text |-> <<>>, hasLink |-> FALSE, linkText |-> <<>>,
     hasDate |-> FALSE, dateAttr |-> <<>>, dateText |-> <<>>]

\* /(\d+(?:,\d+)?)\s*Finisher/i tried at position i: the ways the number can be
\* read so that \s*Finisher follows it
FinisherGroupsAt(s, i) ==
    {c \in NumberGroups(s, i) :
        \E w \in (c[2] + 1)..Len(s) :
            /\ AllSpaces(s, c[2] + 1, w - 1)
            /\ ToLower(s[w]) \in {"finisher", "finishers"}}

\* finisherText.match(...): the leftmost position where the pattern matches,
\* and there the captured group; NoMatch for null
FinisherMatch(s) ==
    LET starts == {i \in 1..Len(s) : FinisherGroupsAt(s, i) # {}}
    IN  IF starts = {} THEN NoMatch
        ELSE Only({SubSeq(s, i, Greedy(FinisherGroupsAt(s, i))[2]) : i \in {Min(starts)}})

\* lines 168-176: let finishers = 0; if (cells[3]) { ... parseInt(...) }
Finishers(row) ==
    IF row.ncells < 4 THEN 0
    ELSE Only({IF m = NoMatch THEN 0 ELSE ParseInt(StripCommas(m)) :
                  m \in {FinisherMatch(row.cell3)}})

\* certText.toLowerCase().includes('not certified')
IncludesNotCertified(s) ==
    \E i \in 1..Len(s) :
        /\ i + 2 <= Len(s)
        /\ ToLower(s[i]) = "not"
        /\ s[i + 1] = " "
        /\ ToLower(s[i + 2]) = "certified"

\* lines 178-184: the fifth cell, when it exists, says the course is not certified
NotCertified(row) == row.ncells >= 5 /\ IncludesNotCertified(row.cell4)

\* lines 149-158: the course type as read from the second cell
RawCourseType(row) ==
    IF row.ncells >= 2
    THEN IF row.courseH4.present THEN Trim(row.courseH4.text) ELSE Trim(row.cell1)
    ELSE <<>>

\* lines 160-163: "Very Flat" is rewritten to "Flat"
NormalizeCourseType(ct) == IF ct = <<"Very", " ", "Flat">> THEN <<"Flat">> ELSE ct

CourseType(row) == NormalizeCourseType(RawCourseType(row))

\* lines 100-116: which heading holds the name, which the city
NameElement(row) ==
    IF row.h1.present THEN row.h1 ELSE IF row.h3.present THEN row.h3 ELSE NoElem

CityElement(row) == IF row.h1.present THEN row.h3 ELSE row.h4

\* lines 120-127
RaceName(row) ==
    IF NameElement(row).hasLink
    THEN Trim(NameElement(row).linkText)
    ELSE Trim(NameElement(row).text)

\* lines 133-141
City(row) ==
    IF CityElement(row).present
    THEN Only({Trim(BeforeComma(cityText)) : cityText \in {Trim(CityElement(row).text)}})
    ELSE <<>>

\* lines 142-146
RaceDate(row) ==
    IF CityElement(row).present /\ CityElement(row).hasDate
    THEN IF CityElement(row).dateAttr # <<>>
         THEN CityElement(row).dateAttr
         ELSE Trim(CityElement(row).dateText)
    ELSE <<>>

\* the loop body without the certification check of lines 179-184
RowSurvives_NoCertCheck(row) ==
    /\ row.ncells >= 4
    /\ NameElement(row).present
    /\ RaceName(row) # <<>>
    /\ CourseType(row) # <<"Very", " ", "Hilly">>
    /\ Finishers(row) >= 100

\* whether the loop body reaches results.push for this row (every `continue`)
RowSurvives(row) ==
    /\ row.ncells >= 4                           \* line 95
    /\ NameElement(row).present                  \* lines 106-118
    /\ RaceName(row) # <<>>                      \* line 130
    /\ CourseType(row) # <<"Very", " ", "Hilly">>  \* line 166
    /\ ~NotCertified(row)                        \* lines 179-184
    /\ Finishers(row) >= 100                     \* line 187

\* lines 189-195: the pushed object; `row` is the loop index i, kept to tell
\* which row a candidate comes from (it is not a property of the JS object)
Candidate(doc, i) ==
    [name |-> RaceName(doc[i]),
     city |-> City(doc[i]),
     date |-> IF RaceDate(doc[i]) # <<>> THEN RaceDate(doc[i]) ELSE <<"-">>,
     finishers |-> Finishers(doc[i]),
     courseType |-> IF CourseType(doc[i]) # <<>> THEN CourseType(doc[i]) ELSE <<"-">>,
     row |-> i]

\* lines 90-196: the loop over the rows, in document order
RECURSIVE CollectRows(_, _)
CollectRows(doc, i) ==
    IF i > Len(doc) THEN <<>>
    ELSE (IF RowSurvives(doc[i]) THEN <<Candidate(doc, i)>> ELSE <<>>)
         \o CollectRows(doc, i + 1)

\* line 199: the comparator (a, b) => b.finishers - a.finishers
Compare(a, b) == b.finishers - a.finishers

\* an insertion that moves x before the elements it ties with (an unstable sort)
RECURSIVE InsertSorted_Unstable(_, _)
InsertSorted_Unstable(sorted, x) ==
    IF sorted = <<>> THEN <<x>>
    ELSE IF Compare(sorted[Len(sorted)], x) < 0
         THEN Append(sorted, x)
         ELSE Append(InsertSorted_Unstable(SubSeq(sorted, 1, Len(sorted) - 1), x),
                     sorted[Len(sorted)])

\* Array.prototype.sort keeps a before b unless the comparator is positive
\* (a stable sort; for short arrays V8 runs a binary insertion sort): x goes in
\* after the last element that must not come after it.
RECURSIVE InsertSorted(_, _)
InsertSorted(sorted, x) ==
    IF sorted = <<>> THEN <<x>>
    ELSE IF Compare(sorted[Len(sorted)], x) <= 0
         THEN Append(sorted, x)
         ELSE Append(InsertSorted(SubSeq(sorted, 1, Len(sorted) - 1), x),
                     sorted[Len(sorted)])

\* the first n elements of results, sorted
RECURSIVE SortPrefix(_, _)
SortPrefix(results, n) ==
    IF n = 0 THEN <<>>
    ELSE Only({InsertSorted(sorted, results[n]) :
                  sorted \in {SortPrefix(results, n - 1)}})

\* line 199: results.sort(...)
SortResults(results) == SortPrefix(results, Len(results))

\* lines 80-205
parse_races_from_html(doc) ==
    Only({SortResults(results) : results \in {CollectRows(doc, 1)}})

----------------------------------------------------------------------------
(* extract_elevation_data.                                                 *)
(*                                                                         *)
(* A detail page is a record: outside (the markup of the body outside the  *)
(* elevation section), hasSection (querySelector('#Elevation, ...') finds   *)
(* an element) and section (the markup inside that element).  Markup is    *)
(* text with tag tokens; innerText drops the tags.                         *)

Tags == {"<b>", "</b>"}

NotTag(t) == t \notin Tags

\* page.content(): the serialized markup of the whole page
Content(d) == d.outside \o d.section

\* element.innerText: the visible text, without the tags
InnerText(s) == SelectSeq(s, NotTag)

\* lines 49-50 tried at position i, label "gain" or "loss":
\* Elevation <label>[:\s]*(\d+(?:,\d+)?)\s*(?:feet|ft), re.IGNORECASE.
\* The ways to match: <<e1, e2, j>>, the number starting at j after [:\s]*.
Tier1GroupsAt(s, i, label) ==
    IF /\ i + 2 <= Len(s)
       /\ ToLower(s[i]) = "elevation"
       /\ s[i + 1] = " "
       /\ ToLower(s[i + 2]) = label
    THEN UNION {
           {<<c[1], c[2], j>> : c \in
               {c \in NumberGroups(s, j) :
                   \E w \in (c[2] + 1)..Len(s) :
                       /\ AllSpaces(s, c[2] + 1, w - 1)
                       /\ ToLower(s[w]) \in {"feet", "ft"}}} :
           j \in {j \in (i + 3)..Len(s) : AllColonSpace(s, i + 3, j - 1)}}
    ELSE {}

\* re.search: the leftmost match; group(1), or NoMatch for None
Tier1Match(s, label) ==
    LET starts == {i \in 1..Len(s) : Tier1GroupsAt(s, i, label) # {}}
    IN  IF starts = {} THEN NoMatch
        ELSE Only({SubSeq(s, c[3], c[2]) :
                      c \in {Greedy(Tier1GroupsAt(s, Min(starts), label))}})

\* lines 67-68 tried at position i: (?:Elevation\s*)?<label>[:\s]*(\d+(?:,\d+)?).
\* The label stands at i, or after "Elevation" and whitespace starting at i.
Tier2GroupsAt(s, i, label) ==
    LET labelAt ==
            {l \in i..Len(s) :
                /\ ToLower(s[l]) = label
                /\ l = i \/ (ToLower(s[i]) = "elevation" /\ AllSpaces(s, i + 1, l - 1))}
    IN  UNION {
          UNION {
            {<<c[1], c[2], j>> : c \in NumberGroups(s, j)} :
            j \in {j \in (l + 1)..Len(s) : AllColonSpace(s, l + 1, j - 1)}} :
          l \in labelAt}

Tier2Match(s, label) ==
    LET starts == {i \in 1..Len(s) : Tier2GroupsAt(s, i, label) # {}}
    IN  IF starts = {} THEN NoMatch
        ELSE Only({SubSeq(s, c[3], c[2]) :
                      c \in {Greedy(Tier2GroupsAt(s, Min(starts), label))}})

\* least index >= p of a token of the kind, or 0
FirstElevation(s, p) ==
    LET hits == {i \in p..Len(s) : ToLower(s[i]) = "elevation"}
    IN  IF hits = {} THEN 0 ELSE Min(hits)

FirstLabel(s, p) ==
    LET hits == {i \in p..Len(s) : ToLower(s[i]) \in {"gain", "loss"}}
    IN  IF hits = {} THEN 0 ELSE Min(hits)

FirstDigit(s, p) ==
    LET hits == {i \in p..Len(s) : IsDigit(s[i])}
    IN  IF hits = {} THEN 0 ELSE Min(hits)

\* the last index of the digit run that starts at k: a greedy \d+
DigitRunLast(s, k) == Max({e \in k..Len(s) : AllDigits(s, k, e)})

\* line 61: /elevation[\s\S]*?(?:gain|loss)[\s\S]*?\d+/gi, the first match at or
\* after position p: <<first, last>>, or <<>>.  Each lazy [\s\S]*? stops at the
\* first label, then at the first digit; \d+ is greedy.  When the first
\* "elevation" has no label and digit after it, no later one has.
ProxyMatchFrom(s, p) ==
    Only({IF i = 0 THEN <<>>
          ELSE Only({IF j = 0 THEN <<>>
                     ELSE Only({IF k = 0 THEN <<>> ELSE <<i, DigitRunLast(s, k)>> :
                                   k \in {FirstDigit(s, j + 1)}}) :
                        j \in {FirstLabel(s, i + 1)}}) :
             i \in {FirstElevation(s, p)}})

\* allText.match(...) with the g flag: the successive matches from p on
RECURSIVE ProxyMatches(_, _)
ProxyMatches(s, p) ==
    Only({IF m = <<>> THEN <<>>
          ELSE <<SubSeq(s, m[1], m[2])>> \o ProxyMatches(s, m[2] + 1) :
             m \in {ProxyMatchFrom(s, p)}})

\* line 62: elevMatch.join(' | ') of the first n matches
RECURSIVE JoinMatches(_, _)
JoinMatches(ms, n) ==
    IF n = 0 THEN <<>>
    ELSE IF n = 1 THEN ms[1]
    ELSE JoinMatches(ms, n - 1) \o <<" ", "|", " ">> \o ms[n]

\* lines 54-64: the JavaScript evaluated in the detail page
ElevationText(d) ==
    IF d.hasSection THEN InnerText(d.section)
    ELSE Only({JoinMatches(ms, Len(ms)) :
                  ms \in {Only({ProxyMatches(allText, 1) :
                                   allText \in {InnerText(d.outside)}})}})

\* lines 49-68: the two match objects after the fallback block
MatchesIn(content, text) ==
    Only({IF (m1[1] = NoMatch \/ m1[2] = NoMatch) /\ text # <<>>
          THEN <<Tier2Match(text, "gain"), Tier2Match(text, "loss")>>
          ELSE m1 :
             m1 \in {<<Tier1Match(content, "gain"), Tier1Match(content, "loss")>>}})

Matches(d) ==
    Only({MatchesIn(content, text) :
             content \in {Content(d)}, text \in {ElevationText(d)}})

Sentinel == <<"-">>

\* lines 70-73: the value returned when nothing raises
ElevationReading(d) ==
    Only({<<IF m[1] # NoMatch THEN StripCommas(m[1]) ELSE Sentinel,
            IF m[2] # NoMatch THEN StripCommas(m[2]) ELSE Sentinel>> :
             m \in {Matches(d)}})

----------------------------------------------------------------------------
(* Program constants.                                                      *)

\* lines 15-29: the dict, in insertion (= iteration) order; its first entries
US_STATES ==
    << <<"Alabama", "AL">>, <<"Alaska", "AK">>, <<"Arizona", "AZ">>,
       <<"Arkansas", "AR">>, <<"California", "CA">> >>

\* line 32
VALID_COURSE_TYPES ==
    {<<"Flat">>, <<"Mostly", " ", "Flat">>, <<"Downhill">>, <<"Hilly">>,
     <<"Rolling", " ", "Hills">>}

\* line 208: max_races=5
DefaultMaxRaces == 5

\* lines 279-280
fieldnames ==
    <<"State", "State_Code", "Marathon Name", "City", "Finishers",
      "Course Type", "Elevation Gain (ft)", "Elevation Loss (ft)", "Date">>

----------------------------------------------------------------------------
(* Bounds of the model and the pages the site may serve.                   *)

MaxRows == 2        \* rows of a listing page, when parse_races_from_html is entered directly
MaxFrags == 2       \* text fragments of a detail page outside its elevation section
NumStates == 2      \* entries of US_STATES the run iterates over
MaxRacesArg == 2    \* largest max_races passed when collect_state_data is entered directly

Elem(text) ==
    [present |-> TRUE, text |-> text, hasLink |-> FALSE, linkText |-> <<>>,
     hasDate |-> FALSE, dateAttr |-> <<>>, dateText |-> <<>>]

\* a spotlight row's first cell: h1 = name (a link), h3 = city line with a date
SpotlightHead ==
    [h1 |-> [Elem(<<"Austin", " ", "Marathon", " ", "Spotlight">>) EXCEPT
                !.hasLink = TRUE, !.linkText = <<" ", "Austin", " ", "Marathon">>],
     h3 |-> [Elem(<<" ", "Austin", ",", " ", "TX">>) EXCEPT
                !.hasDate = TRUE, !.dateAttr = <<"2026-02-15">>],
     h4 |-> NoElem]

\* a regular row's first cell: h3 = name, h4 = city line
RegularHead ==
    [h1 |-> NoElem,
     h3 |-> Elem(<<"Hill", " ", "Run">>),
     h4 |-> Elem(<<"Waco", ",", " ", "TX">>)]

\* no heading at all; a heading whose link has no text
NoHeading == [h1 |-> NoElem, h3 |-> NoElem, h4 |-> NoElem]

EmptyNameHead ==
    [h1 |-> NoElem,
     h3 |-> [Elem(<<"x">>) EXCEPT !.hasLink = TRUE, !.linkText = <<" ">>],
     h4 |-> NoElem]

CourseNone == [h4 |-> NoElem, text |-> <<>>]
CourseHilly == [h4 |-> Elem(<<"Hilly">>), text |-> <<"Hilly">>]
CourseVeryFlat == [h4 |-> Elem(<<"Very", " ", "Flat">>), text |-> <<"Very", " ", "Flat">>]
CourseVeryHilly == [h4 |-> NoElem, text |-> <<" ", "Very", " ", "Hilly", "\n">>]
CourseOther == [h4 |-> Elem(<<"Challenging">>), text |-> <<"Challenging">>]

Fin99 == <<"9", "9", " ", "Finishers">>
Fin100 == <<"1", "0", "0", " ", "finishers">>
Fin250 == <<"2", "5", "0", "Finishers">>
Fin5432 == <<"5", ",", "4", "3", "2", " ", "Finishers">>
FinNone == <<"Results", " ", "2", "0", "2", "5">>

CertNone == <<>>
CertYes == <<"USATF", " ", "Certified">>
CertNot == <<"Course", " ", "is", " ", "Not", " ", "Certified">>
CertNotUpper == <<"NOT", " ", "CERTIFIED">>

\* a row of n cells; a cell the row does not have holds nothing
MkRow(head, n, course, fin, cert) ==
    [ncells |-> n, h1 |-> head.h1, h3 |-> head.h3, h4 |-> head.h4,
     courseH4 |-> IF n >= 2 THEN course.h4 ELSE NoElem,
     cell1 |-> IF n >= 2 THEN course.text ELSE <<>>,
     cell3 |-> IF n >= 4 THEN fin ELSE <<>>,
     cell4 |-> IF n >= 5 THEN cert ELSE <<>>]

Rows ==
    {MkRow(head, IF cert = CertNone THEN 4 ELSE 5, course, fin, cert) :
        head \in {SpotlightHead, RegularHead},
        course \in {CourseNone, CourseVeryFlat, CourseVeryHilly, CourseOther},
        fin \in {Fin100, Fin5432},
        cert \in {CertNone, CertNot}}
    \cup {MkRow(RegularHead, 4, CourseHilly, Fin99, CertNone),
          MkRow(RegularHead, 4, CourseHilly, FinNone, CertNone),
          MkRow(SpotlightHead, 5, CourseHilly, Fin250, CertYes),
          MkRow(SpotlightHead, 5, CourseHilly, Fin250, CertNotUpper),
          MkRow(NoHeading, 4, CourseHilly, Fin250, CertNone),
          MkRow(EmptyNameHead, 4, CourseHilly, Fin250, CertNone),
          MkRow(RegularHead, 3, CourseHilly, Fin250, CertNone)}

Documents == UNION {[1..n -> Rows] : n \in 0..MaxRows}

\* listing pages served during a run
DocNone == <<MkRow(RegularHead, 3, CourseHilly, Fin250, CertNone)>>

DocOne == <<MkRow(RegularHead, 4, CourseVeryFlat, Fin250, CertNone)>>

DocTwo ==
    <<MkRow(RegularHead, 4, CourseHilly, Fin100, CertNone),
      MkRow(RegularHead, 4, CourseVeryHilly, Fin5432, CertNone),
      MkRow(SpotlightHead, 5, CourseVeryFlat, Fin5432, CertYes)>>

DocFour ==
    <<MkRow(RegularHead, 4, CourseHilly, Fin100, CertNone),
      MkRow(RegularHead, 5, CourseHilly, Fin250, CertYes),
      MkRow(SpotlightHead, 5, CourseOther, Fin5432, CertNot),
      MkRow(SpotlightHead, 4, CourseNone, Fin250, CertNone),
      MkRow(SpotlightHead, 5, CourseVeryFlat, Fin5432, CertYes)>>

ListingDocs(e) ==
    IF e = "main" THEN {DocNone, DocOne, DocTwo} ELSE {DocNone, DocTwo, DocFour}

\* text fragments of detail pages
FragGain == <<"Elevation", " ", "Gain", ":", " ", "3", "5", "0", " ", "feet", ".">>
FragLoss == <<"Elevation", " ", "Loss", ":", " ", "1", ",", "2", "0", "0", "ft", ".">>
FragFree ==
    <<"elevation", " ", "gain", " ", "is", " ", "about", " ", "3", "5", "0", " ",
      "and", " ", "loss", " ", "near", " ", "1", "2", "0", ".">>
FragMarkup ==
    <<"<b>", "Elevation", " ", "Gain", ":", "</b>", " ", "4", "1", "0", " ", "feet", ".">>
FragLooseGain == <<"Gain", ":", " ", "7", "0", ".">>
FragLooseLoss == <<"ELEVATION", "\n", "LOSS", " ", "2", ",", "1", "0", "0", ".">>
FragNoise == <<"Course", " ", "profile", " ", "2", "6", ".">>

Fragments ==
    {FragGain, FragLoss, FragFree, FragMarkup, FragLooseGain, FragLooseLoss, FragNoise}

RECURSIVE Concat(_)
Concat(seqs) == IF seqs = <<>> THEN <<>> ELSE Head(seqs) \o Concat(Tail(seqs))

Outsides == {Concat(fs) : fs \in UNION {[1..n -> Fragments] : n \in 0..MaxFrags}}

AllDetailDocs ==
    {[outside |-> o, hasSection |-> FALSE, section |-> <<>>] : o \in Outsides}
    \cup {[outside |-> o, hasSection |-> TRUE, section |-> sec] :
            o \in Outsides, sec \in Fragments \cup {<<>>}}

\* detail pages served during a run
DetailDocs(e) ==
    IF e = "extract_elevation_data" THEN AllDetailDocs
    ELSE {[outside |-> FragNoise, hasSection |-> TRUE, section |-> FragGain \o FragLoss],
          [outside |-> FragNoise, hasSection |-> FALSE, section |-> <<>>]}

----------------------------------------------------------------------------
(* The task: main, collect_state_data and extract_elevation_data, one       *)
(* action per step between two awaits.                                     *)

\* str.replace(' ', '%20')
RECURSIVE UrlEncode(_)
UrlEncode(s) ==
    IF s = <<>> THEN <<>>
    ELSE <<IF Head(s) = " " THEN "%20" ELSE Head(s)>> \o UrlEncode(Tail(s))

\* line 214
ListingUrl(k) == [page |-> "calendar-state.php", key |-> UrlEncode(<<US_STATES[k][1]>>), state |-> k]

\* lines 39-40
DetailUrl(k, race_name) == [page |-> "race-detail.php", key |-> UrlEncode(race_name), state |-> k]

\* page.goto(url) is called: the navigation is under way
GotoStarted(fl, url) == Append(fl, url)

\* a page.goto that is not awaited: the task goes on while the navigation runs
GotoEnded_NotAwaited(fl, url) == fl

\* the awaited page.goto(url) returned or raised: that navigation is over
RECURSIVE GotoEnded(_, _)
GotoEnded(fl, url) ==
    IF fl = <<>> THEN <<>>
    ELSE IF Head(fl) = url THEN Tail(fl)
    ELSE <<Head(fl)>> \o GotoEnded(Tail(fl), url)

\* the slice races[:max_races + 1]
TopRaces_OneMore(rs, n) == SubSeq(rs, 1, IF n + 1 < Len(rs) THEN n + 1 ELSE Len(rs))

\* races[:max_races], a Python slice
TopRaces(rs, n) ==
    IF n >= 0
    THEN SubSeq(rs, 1, IF n < Len(rs) THEN n ELSE Len(rs))
    ELSE SubSeq(rs, 1, IF Len(rs) + n > 0 THEN Len(rs) + n ELSE 0)

\* lines 232-242: the dict appended for one race
Record(k, race, gain, loss) ==
    [State |-> US_STATES[k][1],
     State_Code |-> US_STATES[k][2],
     Marathon_Name |-> race.name,
     City |-> race.city,
     Date |-> race.date,
     Finishers |-> race.finishers,
     Course_Type |-> race.courseType,
     Elevation_Gain |-> gain,
     Elevation_Loss |-> loss]

DigitChar(d) ==
    CASE d = 0 -> "0" [] d = 1 -> "1" [] d = 2 -> "2" [] d = 3 -> "3"
      [] d = 4 -> "4" [] d = 5 -> "5" [] d = 6 -> "6" [] d = 7 -> "7"
      [] d = 8 -> "8" [] d = 9 -> "9"

\* str(n) of a non-negative int, as csv writes it
RECURSIVE Str(_)
Str(n) == IF n < 10 THEN <<DigitChar(n)>> ELSE Str(n \div 10) \o <<DigitChar(n % 10)>>

\* csv.DictWriter.writerow: the values in fieldnames order
CsvRow(r) ==
    <<r.State, r.State_Code, r.Marathon_Name, r.City, Str(r.Finishers),
      r.Course_Type, r.Elevation_Gain, r.Elevation_Loss, r.Date>>

\* lines 284-285: writeheader(), writerows(all_races)
CsvFile(records) == <<fieldnames>> \o [i \in 1..Len(records) |-> CsvRow(records[i])]

\* where a function returns to
AfterParse == IF entry = "parse_races_from_html" THEN "done" ELSE "csd_top"
AfterElevation == IF entry = "extract_elevation_data" THEN "done" ELSE "csd_append"
AfterState == IF entry = "collect_state_data" THEN "done" ELSE "main_extend"

\* line 268: the for loop takes the next state and calls collect_state_data
Main_NextState ==
    /\ pc = "main_loop"
    /\ stateIdx < NumStates
    /\ stateIdx' = stateIdx + 1
    /\ pc' = "csd_goto"
    /\ UNCHANGED <<entry, max_races, inflight, document, races, top_races,
                   race_data, detail, elevation, errors, ret, all_races, history, csv>>

\* lines 214-215: page.goto(listing url) is awaited
CSD_Goto ==
    /\ pc = "csd_goto"
    /\ inflight' = GotoStarted(inflight, ListingUrl(stateIdx))
    /\ pc' = "csd_goto_wait"
    /\ UNCHANGED <<entry, max_races, stateIdx, document, races, top_races,
                   race_data, detail, elevation, errors, ret, all_races, history, csv>>

\* line 215 returns: the listing page is loaded
CSD_GotoOk ==
    /\ pc = "csd_goto_wait"
    /\ \E doc \in ListingDocs(entry) : document' = doc
    /\ inflight' = GotoEnded(inflight, ListingUrl(stateIdx))
    /\ pc' = "parse"
    /\ UNCHANGED <<entry, max_races, stateIdx, races, top_races, race_data,
                   detail, elevation, errors, ret, all_races, history, csv>>

\* a listing failure that is not caught: it leaves collect_state_data and main
CSD_GotoFail_Uncaught ==
    /\ pc = "csd_goto_wait"
    /\ inflight' = GotoEnded(inflight, ListingUrl(stateIdx))
    /\ pc' = "aborted"
    /\ UNCHANGED <<entry, max_races, stateIdx, document, races, top_races, race_data,
                   detail, elevation, errors, ret, all_races, history, csv>>

\* line 215 raises; lines 248-250: except Exception: return []
CSD_GotoFail ==
    /\ pc = "csd_goto_wait"
    /\ inflight' = GotoEnded(inflight, ListingUrl(stateIdx))
    /\ ret' = <<>>
    /\ history' = Append(history, [state |-> stateIdx, listing |-> "failed", records |-> <<>>])
    /\ pc' = AfterState
    /\ UNCHANGED <<entry, max_races, stateIdx, document, races, top_races,
                   race_data, detail, elevation, errors, all_races, csv>>

\* lines 80-205 (called at line 219): the page's rows are extracted
ParseRaces ==
    /\ pc = "parse"
    /\ races' = parse_races_from_html(document)
    /\ pc' = AfterParse
    /\ UNCHANGED <<entry, max_races, stateIdx, inflight, document, top_races,
                   race_data, detail, elevation, errors, ret, all_races, history, csv>>

\* lines 222-227
CSD_Top ==
    /\ pc = "csd_top"
    /\ top_races' = TopRaces(races, max_races)
    /\ race_data' = <<>>
    /\ errors' = {}
    /\ pc' = "csd_loop"
    /\ UNCHANGED <<entry, max_races, stateIdx, inflight, document, races,
                   detail, elevation, ret, all_races, history, csv>>

\* lines 228-230, 39-42: the next race; page.goto(detail url) is awaited
EED_Goto ==
    /\ pc = "csd_loop"
    /\ Len(race_data) < Len(top_races)
    /\ inflight' = GotoStarted(inflight,
                      DetailUrl(stateIdx, top_races[Len(race_data) + 1].name))
    /\ pc' = "eed_goto_wait"
    /\ UNCHANGED <<entry, max_races, stateIdx, document, races, top_races,
                   race_data, detail, elevation, errors, ret, all_races, history, csv>>

\* lines 42-73: the detail page is loaded and read
EED_GotoOk ==
    /\ pc = "eed_goto_wait"
    /\ \E d \in DetailDocs(entry) :
          /\ detail' = d
          /\ elevation' = ElevationReading(d)
    /\ inflight' = GotoEnded(inflight, inflight[Len(inflight)])
    /\ pc' = AfterElevation
    /\ UNCHANGED <<entry, max_races, stateIdx, document, races, top_races,
                   race_data, errors, ret, all_races, history, csv>>

\* a detail failure that is not caught in extract_elevation_data: it reaches
\* collect_state_data's handler, which returns []
EED_Except_Propagates ==
    /\ pc = "eed_goto_wait"
    /\ errors' = errors \cup {Len(race_data) + 1}
    /\ inflight' = GotoEnded(inflight, inflight[Len(inflight)])
    /\ ret' = <<>>
    /\ history' = Append(history, [state |-> stateIdx, listing |-> "loaded", records |-> <<>>])
    /\ pc' = AfterState
    /\ UNCHANGED <<entry, max_races, stateIdx, document, races, top_races,
                   race_data, detail, elevation, all_races, csv>>

\* lines 75-77: something in the try block raised: print, return "-", "-"
EED_Except ==
    /\ pc = "eed_goto_wait"
    /\ elevation' = <<Sentinel, Sentinel>>
    /\ errors' = errors \cup {Len(race_data) + 1}
    /\ inflight' = GotoEnded(inflight, inflight[Len(inflight)])
    /\ pc' = AfterElevation
    /\ UNCHANGED <<entry, max_races, stateIdx, document, races, top_races,
                   race_data, detail, ret, all_races, history, csv>>

\* lines 232-244
CSD_Append ==
    /\ pc = "csd_append"
    /\ race_data' = Append(race_data,
                      Record(stateIdx, top_races[Len(race_data) + 1],
                             elevation[1], elevation[2]))
    /\ pc' = "csd_loop"
    /\ UNCHANGED <<entry, max_races, stateIdx, inflight, document, races, top_races,
                   detail, elevation, errors, ret, all_races, history, csv>>

\* line 246
CSD_Return ==
    /\ pc = "csd_loop"
    /\ Len(race_data) = Len(top_races)
    /\ ret' = race_data
    /\ history' = Append(history, [state |-> stateIdx, listing |-> "loaded", records |-> race_data])
    /\ pc' = AfterState
    /\ UNCHANGED <<entry, max_races, stateIdx, inflight, document, races, top_races,
                   race_data, detail, elevation, errors, all_races, csv>>

\* all_races = races instead of all_races.extend(races)
Main_Extend_Overwrites ==
    /\ pc = "main_extend"
    /\ all_races' = ret
    /\ pc' = "main_loop"
    /\ UNCHANGED <<entry, max_races, stateIdx, inflight, document, races, top_races,
                   race_data, detail, elevation, errors, ret, history, csv>>

\* line 270
Main_Extend ==
    /\ pc = "main_extend"
    /\ all_races' = all_races \o ret
    /\ pc' = "main_loop"
    /\ UNCHANGED <<entry, max_races, stateIdx, inflight, document, races, top_races,
                   race_data, detail, elevation, errors, ret, history, csv>>

\* lines 268, 275: the loop is over, the browser is closed
Main_Close ==
    /\ pc = "main_loop"
    /\ stateIdx = NumStates
    /\ pc' = "save"
    /\ UNCHANGED <<entry, max_races, stateIdx, inflight, document, races, top_races,
                   race_data, detail, elevation, errors, ret, all_races, history, csv>>

\* lines 277-285
Main_Save ==
    /\ pc = "save"
    /\ csv' = CsvFile(all_races)
    /\ pc' = "done"
    /\ UNCHANGED <<entry, max_races, stateIdx, inflight, document, races, top_races,
                   race_data, detail, elevation, errors, ret, all_races, history>>

----------------------------------------------------------------------------
(* Specifications, one per entry point.                                    *)

NoDetail == [outside |-> <<>>, hasSection |-> FALSE, section |-> <<>>]

\* nothing collected yet
Fresh ==
    /\ races = <<>>
    /\ top_races = <<>>
    /\ race_data = <<>>
    /\ elevation = <<Sentinel, Sentinel>>
    /\ errors = {}
    /\ ret = <<>>
    /\ all_races = <<>>
    /\ history = <<>>
    /\ csv = <<>>

\* parse_races_from_html on any listing page of up to MaxRows rows
InitExtract ==
    /\ entry = "parse_races_from_html"
    /\ pc = "parse"
    /\ document \in Documents
    /\ max_races = DefaultMaxRaces
    /\ stateIdx = 1
    /\ inflight = <<>>
    /\ detail = NoDetail
    /\ Fresh

NextExtract == ParseRaces

SpecExtract == InitExtract /\ [][NextExtract]_vars

\* extract_elevation_data, from its page.goto on, on any detail page
InitElevation ==
    /\ entry = "extract_elevation_data"
    /\ pc = "eed_goto_wait"
    /\ document = <<>>
    /\ max_races = DefaultMaxRaces
    /\ stateIdx = 1
    /\ inflight = <<DetailUrl(1, <<"Hill", " ", "Run">>)>>
    /\ detail = NoDetail
    /\ Fresh

NextElevation == EED_GotoOk \/ EED_Except

SpecElevation == InitElevation /\ [][NextElevation]_vars

\* collect_state_data for the first state, with any max_races up to MaxRacesArg
InitState ==
    /\ entry = "collect_state_data"
    /\ pc = "csd_goto"
    /\ document = <<>>
    /\ max_races \in 0..MaxRacesArg
    /\ stateIdx = 1
    /\ inflight = <<>>
    /\ detail = NoDetail
    /\ Fresh

NextState ==
    \/ CSD_Goto \/ CSD_GotoOk \/ CSD_GotoFail \/ ParseRaces \/ CSD_Top
    \/ EED_Goto \/ EED_GotoOk \/ EED_Except \/ CSD_Append \/ CSD_Return

SpecState == InitState /\ [][NextState]_vars

\* main
Init ==
    /\ entry = "main"
    /\ pc = "main_loop"
    /\ document = <<>>
    /\ max_races = DefaultMaxRaces
    /\ stateIdx = 0
    /\ inflight = <<>>
    /\ detail = NoDetail
    /\ Fresh

Next ==
    \/ Main_NextState \/ Main_Extend \/ Main_Close \/ Main_Save
    \/ NextState

Spec == Init /\ [][Next]_vars

\* every awaited fetch returns or raises, and the event loop resumes the task
FairSpec == Spec /\ WF_vars(Next)

----------------------------------------------------------------------------
(* Properties of parse_races_from_html (SpecExtract).                      *)

VeryHilly == <<"Very", " ", "Hilly">>

\* the row's fifth cell exists and its text contains "not certified", in any case
CertCellSaysNotCertified(row) ==
    /\ row.ncells >= 5
    /\ \E i \in 1..(Len(row.cell4) - 2) :
          /\ ToLower(row.cell4[i]) = "not"
          /\ row.cell4[i + 1] = " "
          /\ ToLower(row.cell4[i + 2]) = "certified"

\* C1: every candidate returned by parse_races_from_html has finishers >= 100,
\* a courseType other than "Very Hilly", and comes from a row whose fifth cell
\* does not contain "not certified"; no row failing one of the three filters
\* is emitted.
C1_Filtering ==
    pc = "done" =>
        /\ \A i \in 1..Len(races) :
              /\ races[i].finishers >= 100
              /\ races[i].courseType # VeryHilly
              /\ races[i].row \in 1..Len(document)
              /\ ~CertCellSaysNotCertified(document[races[i].row])
        /\ \A k \in 1..Len(document) :
              (\/ CertCellSaysNotCertified(document[k])
               \/ Finishers(document[k]) < 100
               \/ Trim(IF document[k].courseH4.present
                       THEN document[k].courseH4.text
                       ELSE document[k].cell1) = VeryHilly)
              => \A i \in 1..Len(races) : races[i].row # k

\* a certified race is returned while a well-attended uncertified row is dropped
C1_Witness ==
    /\ pc = "done"
    /\ Len(document) = 2
    /\ Len(races) = 1
    /\ \E k \in 1..2 :
          /\ CertCellSaysNotCertified(document[k])
          /\ Finishers(document[k]) >= 100
          /\ document[k].cell1 # CourseVeryHilly.text

\* C2: the returned sequence is sorted by finishers descending, rows with equal
\* finishers keep their document order, and the sequence holds each surviving
\* row exactly once and nothing else.
C2_Ranking ==
    pc = "done" =>
        /\ \A i, j \in 1..Len(races) :
              i < j =>
                 /\ races[i].finishers >= races[j].finishers
                 /\ races[i].finishers = races[j].finishers
                       => races[i].row < races[j].row
        /\ {races[i].row : i \in 1..Len(races)}
              = {k \in 1..Len(document) : RowSurvives(document[k])}
        /\ Cardinality({races[i].row : i \in 1..Len(races)}) = Len(races)
        /\ \A i \in 1..Len(races) : races[i] = Candidate(document, races[i].row)

\* two surviving rows with different names tie on finishers
C2_Witness ==
    /\ pc = "done"
    /\ Len(races) = 2
    /\ races[1].finishers = races[2].finishers
    /\ races[1].name # races[2].name

\* C8: every returned candidate's courseType is in the closed vocabulary or is
\* "-"; a raw "Very Flat" is emitted as "Flat".
C8_ClosedVocabulary ==
    pc = "done" =>
        \A i \in 1..Len(races) :
            /\ races[i].courseType \in VALID_COURSE_TYPES \cup {<<"-">>}
            /\ RawCourseType(document[races[i].row]) = <<"Very", " ", "Flat">>
                  => races[i].courseType = <<"Flat">>

----------------------------------------------------------------------------
(* Properties of extract_elevation_data (SpecElevation).                   *)

\* a token that is a word: neither whitespace, nor punctuation, nor a digit, nor a tag
IsWord(t) == ~IsSpace(t) /\ ~IsDigit(t) /\ t \notin {":", ",", ".", "|"} \cup Tags

\* the number of the first free-text mention of the label in the text: the first
\* label token, then tokens among which a word and no digit, then the number;
\* NoMatch when the text has no such mention
FreeTextMention(s, label) ==
    LET labels == {i \in 1..Len(s) : ToLower(s[i]) = label}
        g == CHOOSE i \in labels : \A k \in labels : i <= k
        d == FirstDigit(s, g + 1)
    IN  IF labels = {} THEN NoMatch
        ELSE IF d = 0 THEN NoMatch
        ELSE IF \E m \in (g + 1)..(d - 1) : IsWord(s[m])
             THEN SubSeq(s, d, Greedy(NumberGroups(s, d))[2])
        ELSE NoMatch

\* C7: when the content has no canonical tier-1 gain label and the page's text
\* mentions the gain in free text, with words between the label and the number,
\* the returned gain is that number; and a number tier 2 finds with a thousands
\* separator is returned without it.
C7_TierFallback ==
    (pc = "done" /\ errors = {}) =>
        /\ (/\ Tier1Match(Content(detail), "gain") = NoMatch
            /\ FreeTextMention(InnerText(Content(detail)), "gain") # NoMatch)
              => elevation[1]
                    = StripCommas(FreeTextMention(InnerText(Content(detail)), "gain"))
        /\ (/\ Tier1Match(Content(detail), "loss") = NoMatch
            /\ Tier2Match(ElevationText(detail), "loss") = <<"2", ",", "1", "0", "0">>)
              => elevation[2] = <<"2", "1", "0", "0">>

\* C10: a field tier 1 matched is returned as the tier-1 number without commas,
\* also when tier 2 runs for the other field; a field is "-" only when neither
\* tier yields a value for it.
C10_PerFieldTiers ==
    (pc = "done" /\ errors = {}) =>
        LET gain1 == Tier1Match(Content(detail), "gain")
            loss1 == Tier1Match(Content(detail), "loss")
            text == ElevationText(detail)
        IN  /\ gain1 # NoMatch => elevation[1] = StripCommas(gain1)
            /\ loss1 # NoMatch => elevation[2] = StripCommas(loss1)
            /\ elevation[1] = Sentinel
                  => gain1 = NoMatch /\ Tier2Match(text, "gain") = NoMatch
            /\ elevation[2] = Sentinel
                  => loss1 = NoMatch /\ Tier2Match(text, "loss") = NoMatch

----------------------------------------------------------------------------
(* Properties of collect_state_data (SpecState).                           *)

IsPrefix(a, b) == Len(a) <= Len(b) /\ a = SubSeq(b, 1, Len(a))

\* the record carries the candidate's fields and the state's name and code
BuiltFrom(rec, k, race) ==
    /\ rec.State = US_STATES[k][1]
    /\ rec.State_Code = US_STATES[k][2]
    /\ rec.Marathon_Name = race.name
    /\ rec.City = race.city
    /\ rec.Date = race.date
    /\ rec.Finishers = race.finishers
    /\ rec.Course_Type = race.courseType

\* C3: collect_state_data returns at most max_races records, and they are built,
\* one for one and in order, from the first min(max_races, n) of the n ranked
\* candidates the extractor returned.
C3_Truncation ==
    pc = "done" =>
        /\ Len(ret) <= max_races
        /\ history[1].listing = "loaded" =>
              /\ Len(ret) = (IF max_races < Len(races) THEN max_races ELSE Len(races))
              /\ \A i \in 1..Len(ret) : BuiltFrom(ret[i], stateIdx, races[i])

\* more candidates than max_races: the list is cut
C3_Witness ==
    /\ pc = "done"
    /\ max_races > 0
    /\ Len(races) > max_races
    /\ Len(ret) = max_races

C4_Inv ==
    /\ errors \subseteq 1..Len(top_races)
    /\ Len(race_data) <= Len(top_races)
    /\ \A i \in 1..Len(race_data) :
          /\ BuiltFrom(race_data[i], stateIdx, top_races[i])
          /\ i \in errors =>
                /\ race_data[i].Elevation_Gain = Sentinel
                /\ race_data[i].Elevation_Loss = Sentinel
    /\ (pc = "csd_append" /\ Len(race_data) + 1 \in errors)
          => elevation = <<Sentinel, Sentinel>>
    /\ (pc = "done" /\ history[1].listing = "loaded")
          => ret = race_data /\ Len(ret) = Len(top_races)

\* C4: a failure while obtaining one race's elevation does not abort the state:
\* extract_elevation_data returns ("-", "-"), the race's record is emitted with
\* both elevation fields "-" and its other fields intact, the loop goes on to
\* the end of top_races, and the records already built stay as they are.
C4_RaceFailureIsolated ==
    /\ []C4_Inv
    /\ [][pc # "csd_top" => IsPrefix(race_data, race_data')]_vars

\* the first race's fetch failed, the second race's elevation was still read
C4_Witness ==
    /\ pc = "done"
    /\ errors = {1}
    /\ Len(ret) = 2
    /\ ret[1].Elevation_Gain = Sentinel
    /\ ret[2].Elevation_Gain # Sentinel

----------------------------------------------------------------------------
(* Properties of main (Spec, FairSpec).                                    *)

\* the calls of collect_state_data whose return value main has appended
Appended == IF pc = "main_extend" THEN Len(history) - 1 ELSE Len(history)

C5_Inv ==
    /\ all_races = Concat([k \in 1..Appended |-> history[k].records])
    /\ \A k \in 1..Len(history) :
          /\ history[k].state = k
          /\ history[k].listing = "failed" => history[k].records = <<>>
          /\ \A i \in 1..Len(history[k].records) :
                history[k].records[i].State = US_STATES[k][1]
    /\ pc \in {"save", "done"} => Len(history) = NumStates

\* C5: whatever listing fetches fail, the accumulated sequence is the
\* concatenation, in iteration order, of each state's record list, a state whose
\* listing fetch fails contributing none; the following states are still
\* processed and the sequence only grows by appending.
C5_ListingFailureIsolated ==
    /\ []C5_Inv
    /\ [][IsPrefix(all_races, all_races')]_vars

\* the first state's listing fetch failed, the second state still gave records
C5_Witness ==
    /\ pc = "done"
    /\ Len(history) >= 2
    /\ history[1].listing = "failed"
    /\ history[2].records # <<>>
    /\ all_races = history[2].records

\* the run is over: every state was visited and the file holds the header and
\* one row per accumulated record
C6_Persisted ==
    /\ pc = "done"
    /\ stateIdx = NumStates
    /\ Len(history) = NumStates
    /\ Len(csv) = 1 + Len(all_races)
    /\ csv[1] = fieldnames
    /\ \A i \in 1..Len(all_races) :
          /\ csv[i + 1][1] = all_races[i].State
          /\ csv[i + 1][3] = all_races[i].Marathon_Name
          /\ ParseInt(csv[i + 1][5]) = all_races[i].Finishers
          /\ csv[i + 1][7] = all_races[i].Elevation_Gain
          /\ csv[i + 1][8] = all_races[i].Elevation_Loss

\* C6: if every fetch returns or fails, the run reaches the persistence step
\* after visiting every state, whatever fetches failed, and what it writes is
\* the header and one row per accumulated record.
C6_RunCompletes == <>C6_Persisted

\* a run with a failed listing fetch and a failed detail fetch that saved rows
C6_Witness ==
    /\ pc = "done"
    /\ \E k \in 1..Len(history) : history[k].listing = "failed"
    /\ errors # {}
    /\ Len(csv) > 1

\* C9: at most one page fetch is in flight; it belongs to the state being
\* processed, and it is over before the task takes its next step.
C9_OneFetchInFlight ==
    /\ Len(inflight) <= 1
    /\ \A i \in 1..Len(inflight) : inflight[i].state = stateIdx
    /\ Len(inflight) = 1 <=> pc \in {"csd_goto_wait", "eed_goto_wait"}
    /\ pc = "csd_goto_wait" => inflight = <<ListingUrl(stateIdx)>>
    /\ pc = "eed_goto_wait" =>
          inflight = <<DetailUrl(stateIdx, top_races[Len(race_data) + 1].name)>>
    /\ \A k \in 1..Len(history) : history[k].state = k

\* a detail fetch of the second state is in flight, alone
C9_Witness ==
    /\ pc = "eed_goto_wait"
    /\ stateIdx = 2
    /\ Len(race_data) = 1
    /\ Len(inflight) = 1

=============================================================================
